---------------------------- MODULE Spec2Model ----------------------------
(***************************************************************************)
(* Model of the YouTube trend pipeline of youtubedata.py: search_videos,   *)
(* get_video_stats, clean_and_process_data, aggregate_youtube_data and the *)
(* __main__ driver.  Each function is modelled by the steps of its own     *)
(* code; the upstream API (request.execute()) is the environment.          *)
(***************************************************************************)
EXTENDS Integers, Sequences, FiniteSets, TLC

VARIABLES
    pc,               \* position of the running code
    query,            \* search_videos: parameter query
    max_results,      \* search_videos: parameter max_results
    video_data,       \* search_videos: local video_data
    next_page_token,  \* search_videos: local next_page_token
    response,         \* outcome of the last request.execute()
    requests,         \* number of search page requests issued by this call
    odd,              \* environment: irregular pages served so far
    video_ids,        \* get_video_stats: parameter video_ids
    i,                \* get_video_stats: loop variable i
    full_stats,       \* get_video_stats: local full_stats
    batches,          \* history: every batch requested, with its outcome
    trend_idx,        \* __main__: position of `trend` in TREND_QUERIES
    all_raw_data,     \* __main__: all_raw_data
    df_raw_combined,  \* __main__: df_raw_combined
    df_processed_combined, \* __main__: df_processed_combined
    df_final_aggregated,   \* __main__: df_final_aggregated
    written,          \* number of to_csv calls on the output file
    file              \* content handed to the output file

searchVars == <<query, max_results, video_data, next_page_token, requests, odd>>
statsVars == <<video_ids, i, full_stats, batches>>
mainVars == <<trend_idx, all_raw_data, df_raw_combined, df_processed_combined,
              df_final_aggregated, written, file>>
vars == <<pc, response, searchVars, statsVars, mainVars>>

\* Python None, and a present value, of a nullable field.
None == <<>>
Some(x) == <<x>>

\* no request made yet by the running call
NoResponse == [status |-> "none"]

(***************************************************************************)
(* Bounds of the model.                                                    *)
(***************************************************************************)
MaxPages == 12        \* page requests of one standalone search_videos call
MaxOddPages == 1      \* pages of such a call that are not full fresh pages
MaxIds == 120         \* longest video_ids of a standalone get_video_stats call
MaxBatch == 2         \* records of a standalone clean/aggregate input table
MaxDriverPages == 2   \* page requests per query in a driver run

(***************************************************************************)
(* Program constants.                                                      *)
(***************************************************************************)
ApiPageMax == 50      \* "max 50" results per page
ResultCap == 500      \* len(video_data) >= 500
BatchSize == 50       \* range(0, len(video_ids), 50)
ShortEdge == 60       \* bins=[0, 60, ...]
DriverMaxResults == 50 \* max_results=50 in __main__

TREND_QUERIES == <<"feta pasta", "matcha", "dubai chocolate">>

(***************************************************************************)
(* Sequence helpers.                                                       *)
(***************************************************************************)
RECURSIVE Flatten(_)
Flatten(ss) == IF ss = <<>> THEN <<>> ELSE Head(ss) \o Flatten(Tail(ss))

RECURSIVE SumSeq(_)
SumSeq(s) == IF s = <<>> THEN 0 ELSE Head(s) + SumSeq(Tail(s))

Range(s) == {s[k] : k \in 1..Len(s)}

\* Python slice s[a:b] with 0 <= a <= b (0-based, end exclusive, clipped)
Slice(s, a, b) ==
    LET e == IF b > Len(s) THEN Len(s) ELSE b
    IN  IF a >= e THEN <<>> ELSE SubSeq(s, a + 1, e)

(***************************************************************************)
(* Upstream search API (the environment of search_videos).                 *)
(***************************************************************************)
VideoItem(id) == [id |-> [kind |-> "youtube#video", videoId |-> id]]
ChannelItem == [id |-> [kind |-> "youtube#channel"]]

\* The n first items of upstream page p: ids that occur on no other page.
FreshPage(p, n) == [j \in 1..n |-> VideoItem((p - 1) * ApiPageMax + j)]

\* What an irregular page may end with: nothing, an entry without videoId,
\* or an item already served as the first of page 1.
OddTails == {<<>>, <<ChannelItem>>, <<VideoItem(1)>>}

OddPages(p, m) == {FreshPage(p, m - 1) \o t : t \in OddTails} \cup OddTails

\* The pages a driver run is served: short pages over three videos.
DriverPages ==
    {<<>>, <<ChannelItem, VideoItem(1)>>, <<VideoItem(2), VideoItem(3)>>}

OkResponse(items, hasNext, p) ==
    IF hasNext THEN [items |-> items, nextPageToken |-> p + 1]
               ELSE [items |-> items]

(***************************************************************************)
(* search_videos                                                           *)
(***************************************************************************)
\* if item['id'].get('videoId')
HasVideoId(item) == "videoId" \in DOMAIN item.id

\* title, published_at and channel_id are copied from the snippet the same
\* way and are read by nothing downstream; they are left out.
SearchEntry(q, item) == [search_query |-> q, video_id |-> item.id.videoId]

\* for item in response.get('items', []): ... video_data.append({...})
CollectItems(vd, q, items) ==
    LET sel == SelectSeq(items, HasVideoId)
    IN  vd \o [k \in 1..Len(sel) |-> SearchEntry(q, sel[k])]

\* response.get('nextPageToken')
GetNextPageToken(resp) ==
    IF "nextPageToken" \in DOMAIN resp THEN Some(resp.nextPageToken) ELSE None

\* (mutant) the cap compared with > instead of >=
SearchBreaksAboveCap(token, vd) == token = None \/ Len(vd) > ResultCap

\* if not next_page_token or len(video_data) >= 500: break
SearchBreaks(token, vd) == token = None \/ Len(vd) >= ResultCap

\* One iteration of the while loop whose request succeeds with a page of
\* `pages`.
SearchPageOk(pages, limit) ==
    /\ pc = "search"
    /\ requests < limit
    /\ requests' = requests + 1
    /\ \E hasNext \in BOOLEAN, items \in pages :
          LET resp == OkResponse(items, hasNext, requests + 1)
              vd == CollectItems(video_data, query, resp.items)
          IN  /\ response' = resp
              /\ video_data' = vd
              /\ next_page_token' = GetNextPageToken(resp)
              /\ pc' = IF SearchBreaks(GetNextPageToken(resp), vd)
                       THEN "search_returned" ELSE "search"
    /\ UNCHANGED <<query, max_results>>

\* except HttpError as e: print(...); break
SearchHttpErrorStep(limit) ==
    /\ pc = "search"
    /\ requests < limit
    /\ requests' = requests + 1
    /\ response' = [error |-> "HttpError"]
    /\ pc' = "search_returned"
    /\ UNCHANGED <<query, max_results, video_data, next_page_token, odd>>

\* request.execute() raises something that is no HttpError (a transport
\* error: timeout, unreachable server, reset connection): no except clause
\* of search_videos matches and the exception leaves the function.
SearchOtherErrorStep(limit) ==
    /\ pc = "search"
    /\ requests < limit
    /\ requests' = requests + 1
    /\ response' = [error |-> "NetworkError"]
    /\ pc' = "search_raised"
    /\ UNCHANGED <<query, max_results, video_data, next_page_token, odd>>

(***************************************************************************)
(* Upstream videos API (the environment of get_video_stats).               *)
(***************************************************************************)
\* An ISO-8601 duration is the sequence of its characters.
PT30S == <<"P", "T", "3", "0", "S">>
PT59S == <<"P", "T", "5", "9", "S">>
PT1M == <<"P", "T", "1", "M">>
PT4M20S == <<"P", "T", "4", "M", "2", "0", "S">>
Malformed == <<"4", ":", "2", "0">>

\* The detail record the API holds for video id: four kinds of video.
\* publishedAt is the UTC instant in hours since the epoch; the counts are
\* the numbers int() reads from the API's decimal strings.
DetailItem(id) ==
    CASE id % 4 = 1 ->
           [id |-> id,
            snippet |-> [publishedAt |-> 30],
            statistics |-> [viewCount |-> 10, likeCount |-> 1, commentCount |-> 0],
            contentDetails |-> [duration |-> PT30S]]
      [] id % 4 = 2 ->
           [id |-> id,
            snippet |-> [publishedAt |-> 30],
            statistics |-> [viewCount |-> 0, likeCount |-> 2, commentCount |-> 1],
            contentDetails |-> [duration |-> PT4M20S]]
      [] id % 4 = 3 ->
           [id |-> id,
            snippet |-> [title |-> "t"],
            contentDetails |-> [dimension |-> "2d"]]
      [] OTHER ->
           [snippet |-> [publishedAt |-> 55],
            statistics |-> [viewCount |-> 4, likeCount |-> 1, commentCount |-> 1],
            contentDetails |-> [duration |-> PT1M]]

\* The items the API answers a batch with: one per identifier, or all but
\* the first (a video that is gone).
DetailPages(batch) ==
    LET all == [k \in 1..Len(batch) |-> DetailItem(batch[k])]
    IN  {all} \cup (IF all = <<>> THEN {} ELSE {Tail(all)})

(***************************************************************************)
(* get_video_stats                                                         *)
(***************************************************************************)
\* d.get(key): None when the key is absent
GetOpt(d, key) == IF key \in DOMAIN d THEN Some(d[key]) ELSE None

\* d.get(key, default)
GetOr(d, key, default) == IF key \in DOMAIN d THEN d[key] ELSE default

\* item.get(key, {})
GetDict(d, key) == IF key \in DOMAIN d THEN d[key] ELSE <<>>

\* full_stats.append({...}); title, description, tags and scrape_date are
\* read by no modelled property and are left out.
StatsEntry(item) ==
    LET stats == GetDict(item, "statistics")
        snippet == GetDict(item, "snippet")
        content == GetDict(item, "contentDetails")
    IN  [video_id |-> GetOpt(item, "id"),
         published_at |-> GetOpt(snippet, "publishedAt"),
         view_count |-> GetOr(stats, "viewCount", 0),
         like_count |-> GetOr(stats, "likeCount", 0),
         comment_count |-> GetOr(stats, "commentCount", 0),
         duration_iso |-> GetOpt(content, "duration")]

StatsEntries(items) == [k \in 1..Len(items) |-> StatsEntry(items[k])]

\* batch = video_ids[i:i + 50]
Batch(ids, k) == Slice(ids, k, k + BatchSize)

\* One iteration of the for loop whose request succeeds.
StatsChunkOkStep ==
    /\ pc = "stats"
    /\ i < Len(video_ids)
    /\ \E items \in DetailPages(Batch(video_ids, i)) :
          /\ response' = [items |-> items]
          /\ full_stats' = full_stats \o StatsEntries(items)
          /\ batches' = Append(batches, [ids |-> Batch(video_ids, i), outcome |-> "ok",
                                         records |-> StatsEntries(items)])
    /\ i' = i + BatchSize
    /\ UNCHANGED <<pc, video_ids>>

\* except HttpError as e: print(...); continue
StatsHttpErrorStep ==
    /\ pc = "stats"
    /\ i < Len(video_ids)
    /\ response' = [error |-> "HttpError"]
    /\ batches' = Append(batches, [ids |-> Batch(video_ids, i), outcome |-> "HttpError",
                                   records |-> <<>>])
    /\ i' = i + BatchSize
    /\ UNCHANGED <<pc, video_ids, full_stats>>

\* request.execute() raises something that is no HttpError: the exception
\* leaves get_video_stats, and full_stats with it.
StatsOtherErrorStep ==
    /\ pc = "stats"
    /\ i < Len(video_ids)
    /\ response' = [error |-> "NetworkError"]
    /\ batches' = Append(batches, [ids |-> Batch(video_ids, i), outcome |-> "NetworkError",
                                   records |-> <<>>])
    /\ pc' = "stats_raised"
    /\ UNCHANGED <<video_ids, i, full_stats>>

\* the range is exhausted: print(...); return full_stats
StatsReturnStep ==
    /\ pc = "stats"
    /\ i >= Len(video_ids)
    /\ pc' = "stats_returned"
    /\ UNCHANGED <<response, video_ids, i, full_stats, batches>>

(***************************************************************************)
(* Floats of the table: the rational num/den in lowest terms, den > 0;     *)
(* den = 0 is a non-finite value, inf (num = 1) or nan (num = 0).          *)
(***************************************************************************)
RECURSIVE GCD(_, _)
GCD(a, b) == IF b = 0 THEN a ELSE GCD(b, a % b)

Frac(n, d) == LET g == GCD(n, d) IN [num |-> n \div g, den |-> d \div g]

Inf == [num |-> 1, den |-> 0]
NaN == [num |-> 0, den |-> 0]
Zero == [num |-> 0, den |-> 1]

\* a / b of two non-negative int64 columns
TrueDiv(a, b) == IF b = 0 THEN (IF a = 0 THEN NaN ELSE Inf) ELSE Frac(a, b)

\* (mutant) only inf is replaced
ReplaceInfOnly(x) == IF x = Inf THEN Zero ELSE x

\* .replace({float('inf'): 0, float('nan'): 0}, inplace=True), as the pandas
\* the script was written for applies it: in place, on the column of df
ReplaceNonFinite(x) == IF x = Inf \/ x = NaN THEN Zero ELSE x

FracAdd(x, y) == Frac(x.num * y.den + y.num * x.den, x.den * y.den)

RECURSIVE FracSum(_)
FracSum(s) == IF s = <<>> THEN Zero ELSE FracAdd(Head(s), FracSum(Tail(s)))

\* mean of finite values; nan for none
FracMean(s) ==
    IF s = <<>> THEN NaN
    ELSE LET t == FracSum(s) IN Frac(t.num, t.den * Len(s))

(***************************************************************************)
(* clean_and_process_data                                                  *)
(***************************************************************************)
Digits == {"0", "1", "2", "3", "4", "5", "6", "7", "8", "9"}

DigitValue(c) ==
    CASE c = "0" -> 0 [] c = "1" -> 1 [] c = "2" -> 2 [] c = "3" -> 3
      [] c = "4" -> 4 [] c = "5" -> 5 [] c = "6" -> 6 [] c = "7" -> 7
      [] c = "8" -> 8 [] c = "9" -> 9

\* the run of digits of s from position k on: its value, and where it ends
RECURSIVE ReadNumber(_, _, _)
ReadNumber(s, k, acc) ==
    IF k <= Len(s) /\ s[k] \in Digits
    THEN ReadNumber(s, k + 1, acc * 10 + DigitValue(s[k]))
    ELSE [value |-> acc, next |-> k]

\* an optional component <digits><unit> of s at position k
Component(s, k, unit) ==
    LET n == ReadNumber(s, k, 0)
    IN  IF n.next > k /\ n.next <= Len(s) /\ s[n.next] = unit
        THEN [value |-> n.value, next |-> n.next + 1]
        ELSE [value |-> 0, next |-> k]

\* isodate.parse_duration(s).total_seconds() on P[nD][T[nH][nM][nS]], the
\* form the API emits; None where parse_duration raises.
ParseDuration(s) ==
    IF Len(s) < 2 \/ s[1] # "P" THEN None
    ELSE LET d == Component(s, 2, "D")
             hasT == d.next <= Len(s) /\ s[d.next] = "T"
             h == Component(s, d.next + 1, "H")
             m == Component(s, h.next, "M")
             sec == Component(s, m.next, "S")
             end == IF hasT THEN sec.next ELSE d.next
             total == d.value * 86400
                      + (IF hasT THEN h.value * 3600 + m.value * 60 + sec.value ELSE 0)
         IN  IF end = Len(s) + 1 THEN Some(total) ELSE None

\* try: return isodate.parse_duration(duration).total_seconds()
\* except: return None
iso_to_seconds(duration) ==
    IF duration = None THEN None ELSE ParseDuration(duration[1])

\* df['duration_seconds'].max(): the largest non-null value, None (nan) for none
RECURSIVE SeqMax(_)
SeqMax(s) ==
    IF s = <<>> THEN None
    ELSE LET rest == SeqMax(Tail(s))
         IN  IF Head(s) = None THEN rest
             ELSE IF rest = None \/ Head(s)[1] >= rest[1] THEN Head(s) ELSE rest

\* pd.cut(x, bins=[0, 60, top], right=False) with top = max + 1 raises
\* ValueError unless the edges increase strictly: top is nan (no duration
\* parsed), top < 60 (bins must increase monotonically) or top = 60 (bin
\* edges must be unique)
CutRaises(mx) == mx = None \/ mx[1] + 1 <= ShortEdge

\* the label of one value: [0, 60) and [60, top), nothing outside or for nan
Cut(x, top) ==
    IF x = None THEN None
    ELSE IF 0 <= x[1] /\ x[1] < ShortEdge THEN Some("Short")
    ELSE IF ShortEdge <= x[1] /\ x[1] < top THEN Some("Longer_Video")
    ELSE None

\* TREND_MAPPING = {query: query.replace(' ', '-') for query in TREND_QUERIES}
\* .map(TREND_MAPPING).fillna('other')
TrendId(q) ==
    CASE q = "feta pasta" -> "feta-pasta"
      [] q = "matcha" -> "matcha"
      [] q = "dubai chocolate" -> "dubai-chocolate"
      [] OTHER -> "other"

\* published_at as a UTC calendar date: the day of the instant (hours)
DateOf(published_at) ==
    IF published_at = None THEN None ELSE Some(published_at[1] \div 24)

Durations(df) == [k \in 1..Len(df) |-> iso_to_seconds(df[k].duration_iso)]

\* Where clean_and_process_data raises: no published_at column in an empty
\* table (KeyError), tz_convert on a column of NaT only (TypeError), pd.cut.
CleanRaises(df) ==
    \/ df = <<>>
    \/ \A k \in 1..Len(df) : df[k].published_at = None
    \/ CutRaises(SeqMax(Durations(df)))

CleanRecord(r, top) ==
    [video_id |-> r.video_id,
     search_query |-> r.search_query,
     view_count |-> r.view_count,
     like_count |-> r.like_count,
     comment_count |-> r.comment_count,
     duration_iso |-> r.duration_iso,
     duration_seconds |-> iso_to_seconds(r.duration_iso),
     engagement_rate |->
         ReplaceNonFinite(TrueDiv(r.like_count + r.comment_count, r.view_count)),
     video_type |-> Cut(iso_to_seconds(r.duration_iso), top),
     Trend_ID |-> TrendId(r.search_query),
     Date |-> DateOf(r.published_at)]

\* the table clean_and_process_data returns (age_days and title_length are
\* read by no modelled property and are left out)
Clean(df) ==
    LET top == SeqMax(Durations(df))[1] + 1
    IN  [k \in 1..Len(df) |-> CleanRecord(df[k], top)]

(***************************************************************************)
(* aggregate_youtube_data                                                  *)
(***************************************************************************)
\* the order of the Trend_ID strings
TrendRank(t) ==
    CASE t = "dubai-chocolate" -> 1
      [] t = "feta-pasta" -> 2
      [] t = "matcha" -> 3
      [] OTHER -> 4

KeyLess(a, b) ==
    \/ TrendRank(a[1]) < TrendRank(b[1])
    \/ TrendRank(a[1]) = TrendRank(b[1]) /\ a[2] < b[2]

\* groupby(['Trend_ID', 'Date']): the group keys, rows with a null Date
\* dropped (dropna=True)
GroupKeys(df) ==
    {<<df[k].Trend_ID, df[k].Date[1]>> : k \in {n \in 1..Len(df) : df[n].Date # None}}

\* the keys in sorted order (sort=True)
RECURSIVE SortKeys(_)
SortKeys(S) ==
    IF S = {} THEN <<>>
    ELSE LET least == CHOOSE a \in S : \A b \in S \ {a} : KeyLess(a, b)
         IN  <<least>> \o SortKeys(S \ {least})

GroupRows(df, key) ==
    LET InGroup(r) == r.Date # None /\ <<r.Trend_ID, r.Date[1]>> = key
    IN  SelectSeq(df, InGroup)

\* a column of a table, by name
Column(rows, name) == [k \in 1..Len(rows) |-> rows[k][name]]

\* .agg(agg_funcs): 'count' counts the non-null values, 'sum' adds, 'mean'
\* averages the non-null values
AggRow(df, key) ==
    LET rows == GroupRows(df, key)
        HasId(r) == r.video_id # None
        HasDuration(r) == r.duration_seconds # None
        timed == SelectSeq(rows, HasDuration)
    IN  [Trend_ID |-> key[1],
         Date |-> key[2],
         daily_video_count |-> Len(SelectSeq(rows, HasId)),
         view_count |-> SumSeq(Column(rows, "view_count")),
         like_count |-> SumSeq(Column(rows, "like_count")),
         comment_count |-> SumSeq(Column(rows, "comment_count")),
         engagement_rate |-> FracMean(Column(rows, "engagement_rate")),
         duration_seconds |->
             FracMean([k \in 1..Len(timed) |-> Frac(timed[k].duration_seconds[1], 1)])]

\* title_length (a mean like the others) is left out with the column.
aggregate_youtube_data(df) ==
    LET keys == SortKeys(GroupKeys(df))
    IN  [k \in 1..Len(keys) |-> AggRow(df, keys[k])]

(***************************************************************************)
(* __main__                                                                *)
(***************************************************************************)
\* youtube = get_authenticated_service(); it may raise (no client secret,
\* a refused flow), which the except clause of __main__ catches
MainAuth ==
    /\ pc = "auth"
    /\ \/ pc' = "loop"
       \/ pc' = "caught"
    /\ UNCHANGED <<response, searchVars, statsVars, mainVars>>

\* for trend in TREND_QUERIES: video_snippets = search_videos(youtube,
\* query=trend, max_results=50, video_duration='short')
MainSearchCall ==
    /\ pc = "loop"
    /\ trend_idx <= Len(TREND_QUERIES)
    /\ query' = TREND_QUERIES[trend_idx]
    /\ max_results' = DriverMaxResults
    /\ video_data' = <<>>
    /\ next_page_token' = None
    /\ requests' = 0
    /\ pc' = "search"
    /\ UNCHANGED <<response, odd, statsVars, mainVars>>

MainSearchPage ==
    /\ SearchPageOk(DriverPages, MaxDriverPages)
    /\ UNCHANGED <<odd, statsVars, mainVars>>

MainSearchHttpError ==
    /\ SearchHttpErrorStep(MaxDriverPages)
    /\ UNCHANGED <<statsVars, mainVars>>

MainSearchOtherError ==
    /\ SearchOtherErrorStep(MaxDriverPages)
    /\ UNCHANGED <<statsVars, mainVars>>

\* video_ids = [v['video_id'] for v in video_snippets]
VideoIdsOf(vd) == [k \in 1..Len(vd) |-> vd[k].video_id]

\* the locals of a call that has returned, once its result is consumed
SearchLocalsGone ==
    /\ video_data' = <<>>
    /\ next_page_token' = None
    /\ requests' = 0
    /\ response' = NoResponse
    /\ UNCHANGED <<query, max_results, odd>>

StatsLocalsGone ==
    /\ video_ids' = <<>>
    /\ i' = 0
    /\ full_stats' = <<>>
    /\ batches' = <<>>
    /\ response' = NoResponse

\* if not video_ids: continue
MainSkipTrend ==
    /\ pc = "search_returned"
    /\ VideoIdsOf(video_data) = <<>>
    /\ trend_idx' = trend_idx + 1
    /\ pc' = "loop"
    /\ SearchLocalsGone
    /\ UNCHANGED <<statsVars, all_raw_data, df_raw_combined,
                   df_processed_combined, df_final_aggregated, written, file>>

\* full_video_data = get_video_stats(youtube, video_ids)
MainStatsCall ==
    /\ pc = "search_returned"
    /\ VideoIdsOf(video_data) # <<>>
    /\ video_ids' = VideoIdsOf(video_data)
    /\ i' = 0
    /\ full_stats' = <<>>
    /\ batches' = <<>>
    /\ pc' = "stats"
    /\ SearchLocalsGone
    /\ UNCHANGED mainVars

\* df_temp = pd.DataFrame(full_video_data); df_temp['search_query'] = trend
Frame(stats, trend) ==
    [k \in 1..Len(stats) |-> stats[k] @@ [search_query |-> trend]]

\* all_raw_data.append(df_temp)
MainAppend ==
    /\ pc = "stats_returned"
    /\ all_raw_data' = Append(all_raw_data, Frame(full_stats, TREND_QUERIES[trend_idx]))
    /\ trend_idx' = trend_idx + 1
    /\ pc' = "loop"
    /\ StatsLocalsGone
    /\ UNCHANGED <<searchVars, df_raw_combined,
                   df_processed_combined, df_final_aggregated, written, file>>

\* (mutant) the handler goes on to save what there is
MainExceptThenWrite ==
    /\ pc \in {"search_raised", "stats_raised"}
    /\ pc' = "write"
    /\ UNCHANGED <<response, searchVars, statsVars, mainVars>>

\* an exception that left search_videos or get_video_stats reaches
\* except Exception as e: print(...)
MainExcept ==
    /\ pc \in {"search_raised", "stats_raised"}
    /\ pc' = "caught"
    /\ UNCHANGED <<response, searchVars, statsVars, mainVars>>

\* if not all_raw_data: exit()  -- SystemExit is no Exception
MainExit ==
    /\ pc = "loop"
    /\ trend_idx > Len(TREND_QUERIES)
    /\ all_raw_data = <<>>
    /\ pc' = "exited"
    /\ UNCHANGED <<response, searchVars, statsVars, mainVars>>

\* df_raw_combined = pd.concat(all_raw_data, ignore_index=True)
MainConcat ==
    /\ pc = "loop"
    /\ trend_idx > Len(TREND_QUERIES)
    /\ all_raw_data # <<>>
    /\ df_raw_combined' = Some(Flatten(all_raw_data))
    /\ pc' = "clean"
    /\ UNCHANGED <<response, searchVars, statsVars, trend_idx, all_raw_data,
                   df_processed_combined, df_final_aggregated, written, file>>

\* df_processed_combined = clean_and_process_data(df_raw_combined.copy())
MainClean ==
    /\ pc = "clean"
    /\ IF CleanRaises(df_raw_combined[1])
       THEN pc' = "caught" /\ UNCHANGED df_processed_combined
       ELSE pc' = "aggregate" /\ df_processed_combined' = Some(Clean(df_raw_combined[1]))
    /\ UNCHANGED <<response, searchVars, statsVars, trend_idx, all_raw_data,
                   df_raw_combined, df_final_aggregated, written, file>>

\* df_final_aggregated = aggregate_youtube_data(df_processed_combined.copy())
MainAggregate ==
    /\ pc = "aggregate"
    /\ df_final_aggregated' = Some(aggregate_youtube_data(df_processed_combined[1]))
    /\ pc' = "write"
    /\ UNCHANGED <<response, searchVars, statsVars, trend_idx, all_raw_data,
                   df_raw_combined, df_processed_combined, written, file>>

\* df_processed_combined.to_csv(PROCESSED_FILE, index=False); it may raise
\* (an unwritable file) after the file was opened
MainWrite ==
    /\ pc = "write"
    /\ written' = written + 1
    /\ file' = df_processed_combined
    /\ \/ pc' = "done"
       \/ pc' = "caught"
    /\ UNCHANGED <<response, searchVars, statsVars, trend_idx, all_raw_data,
                   df_raw_combined, df_processed_combined, df_final_aggregated>>

(***************************************************************************)
(* Specifications.                                                         *)
(***************************************************************************)
IdleSearch ==
    /\ query = "matcha" /\ max_results = DriverMaxResults /\ video_data = <<>>
    /\ next_page_token = None /\ requests = 0 /\ odd = 0

IdleStats == video_ids = <<>> /\ i = 0 /\ full_stats = <<>> /\ batches = <<>>

IdleMain ==
    /\ trend_idx = 1 /\ all_raw_data = <<>> /\ df_raw_combined = None
    /\ df_processed_combined = None /\ df_final_aggregated = None
    /\ written = 0 /\ file = None

\* search_videos alone, called with max_results of MaxResultsSet
MaxResultsSet == {1, ApiPageMax - 1, ApiPageMax}

InitSearch ==
    /\ pc = "search"
    /\ response = NoResponse
    /\ query = "matcha"
    /\ max_results \in MaxResultsSet
    /\ video_data = <<>>
    /\ next_page_token = None
    /\ requests = 0
    /\ odd = 0
    /\ IdleStats
    /\ IdleMain

\* the request is answered with a full page of fresh items
SearchPageFull ==
    /\ SearchPageOk({FreshPage(requests + 1, max_results)}, MaxPages)
    /\ UNCHANGED <<odd, statsVars, mainVars>>

\* the request is answered with an irregular page
SearchPageOdd ==
    /\ odd < MaxOddPages
    /\ odd' = odd + 1
    /\ SearchPageOk(OddPages(requests + 1, max_results), MaxPages)
    /\ UNCHANGED <<statsVars, mainVars>>

SearchHttpError == SearchHttpErrorStep(MaxPages) /\ UNCHANGED <<statsVars, mainVars>>

SearchOtherError == SearchOtherErrorStep(MaxPages) /\ UNCHANGED <<statsVars, mainVars>>

NextSearch == SearchPageFull \/ SearchPageOdd \/ SearchHttpError \/ SearchOtherError

SpecSearch == InitSearch /\ [][NextSearch]_vars

\* get_video_stats alone, called with 1..n for the lengths n of StatsLens
StatsLens ==
    {0, 1, BatchSize - 1, BatchSize, BatchSize + 1, 2 * BatchSize, 2 * BatchSize + 1, MaxIds}

InitStats ==
    /\ pc = "stats"
    /\ response = NoResponse
    /\ IdleSearch
    /\ video_ids \in {[k \in 1..n |-> k] : n \in StatsLens}
    /\ i = 0
    /\ full_stats = <<>>
    /\ batches = <<>>
    /\ IdleMain

StatsChunkOk == StatsChunkOkStep /\ UNCHANGED <<searchVars, mainVars>>

StatsHttpError == StatsHttpErrorStep /\ UNCHANGED <<searchVars, mainVars>>

StatsOtherError == StatsOtherErrorStep /\ UNCHANGED <<searchVars, mainVars>>

StatsReturn == StatsReturnStep /\ UNCHANGED <<searchVars, mainVars>>

NextStats == StatsChunkOk \/ StatsHttpError \/ StatsOtherError \/ StatsReturn

SpecStats == InitStats /\ [][NextStats]_vars

\* clean_and_process_data and aggregate_youtube_data on every table of at
\* most MaxBatch records of RawRecords
DurationInputs == {None, Some(Malformed), Some(PT30S), Some(PT59S), Some(PT1M), Some(PT4M20S)}

\* <<view_count, like_count, comment_count>>
CountInputs == {<<0, 0, 0>>, <<0, 1, 1>>, <<4, 1, 1>>}

\* <<video_id, published_at, search_query>>
KeyInputs ==
    {<<Some(1), Some(30), "matcha">>, <<Some(2), Some(55), "matcha">>,
     <<None, Some(30), "feta pasta">>, <<Some(3), None, "matcha">>,
     <<Some(4), Some(30), "ramen">>}

RawRecord(key, c, d) ==
    [video_id |-> key[1], published_at |-> key[2], search_query |-> key[3],
     view_count |-> c[1], like_count |-> c[2], comment_count |-> c[3],
     duration_iso |-> d]

\* every count and duration under one key, every key under two durations
RawRecords ==
    {RawRecord(<<Some(1), Some(30), "matcha">>, c, d) :
        c \in CountInputs, d \in DurationInputs}
    \cup {RawRecord(key, <<4, 1, 1>>, d) :
        key \in KeyInputs, d \in {Some(PT30S), Some(PT4M20S)}}

Tables == UNION {[1..n -> RawRecords] : n \in 0..MaxBatch}

InitTransform ==
    /\ pc = "clean"
    /\ response = NoResponse
    /\ IdleSearch
    /\ IdleStats
    /\ trend_idx = Len(TREND_QUERIES) + 1
    /\ df_raw_combined \in {Some(t) : t \in Tables}
    /\ all_raw_data = <<df_raw_combined[1]>>
    /\ df_processed_combined = None
    /\ df_final_aggregated = None
    /\ written = 0
    /\ file = None

NextTransform == MainClean \/ MainAggregate \/ MainWrite

SpecTransform == InitTransform /\ [][NextTransform]_vars

\* a run of the driver
Init ==
    /\ pc = "auth"
    /\ response = NoResponse
    /\ IdleSearch
    /\ IdleStats
    /\ IdleMain

Next ==
    \/ MainAuth
    \/ MainSearchCall
    \/ MainSearchPage
    \/ MainSearchHttpError
    \/ MainSearchOtherError
    \/ MainSkipTrend
    \/ MainStatsCall
    \/ StatsChunkOk
    \/ StatsHttpError
    \/ StatsOtherError
    \/ StatsReturn
    \/ MainAppend
    \/ MainExcept
    \/ MainExit
    \/ MainConcat
    \/ MainClean
    \/ MainAggregate
    \/ MainWrite

Spec == Init /\ [][Next]_vars

(***************************************************************************)
(* Properties.                                                             *)
(***************************************************************************)
FailedResponse == "error" \in DOMAIN response
PageResponse == "items" \in DOMAIN response

\* C1: after a successful page response search_videos goes on to the next
\* page request exactly when the response carried a continuation token and
\* fewer than 500 results are accumulated; with 500 or more accumulated no
\* further request is issued.  (SpecSearch)
C1_NextPageIffTokenBelowCap ==
    /\ (requests > 0 /\ PageResponse) =>
          (pc = "search" <=>
              ("nextPageToken" \in DOMAIN response /\ Len(video_data) < ResultCap))
    /\ Len(video_data) >= ResultCap => pc # "search"

\* C1 witness: the cap stopped a call whose last response carried a token.
C1_Witness ==
    /\ pc = "search_returned"
    /\ PageResponse
    /\ "nextPageToken" \in DOMAIN response
    /\ Len(video_data) >= ResultCap

\* C2: search_videos returns at most 500 results.  (SpecSearch)
C2_AtMostCap == pc = "search_returned" => Len(video_data) <= ResultCap

\* What the code does keep to: the last page may overshoot the cap by less
\* than one page.
SearchOvershootBound ==
    Len(video_data) <= ResultCap - 1 + max_results

\* C3: a page request that fails ends the call without raising, and the call
\* returns exactly the results collected before it.  (SpecSearch)
C3_FailedPageReturnsPartial ==
    [][("error" \in DOMAIN response' /\ requests' = requests + 1) =>
          (pc' = "search_returned" /\ video_data' = video_data)]_vars

\* The same for the failures that are an HttpError.
HttpErrorPageReturnsPartial ==
    [][(response' = [error |-> "HttpError"] /\ requests' = requests + 1) =>
          (pc' = "search_returned" /\ video_data' = video_data)]_vars

ChunksCoverPrefix ==
    /\ \A k \in 1..Len(batches) : Len(batches[k].ids) <= BatchSize
    /\ Flatten(Column(batches, "ids")) = Slice(video_ids, 0, Len(batches) * BatchSize)

\* C4: get_video_stats sends every identifier in exactly one request, in
\* consecutive chunks of at most 50; a failed chunk does not end the call,
\* and the call returns the records of every chunk that succeeded.
\* (SpecStats)
C4_ChunksIsolated ==
    /\ pc # "stats_raised"
    /\ ChunksCoverPrefix
    /\ pc = "stats_returned" =>
          /\ Flatten(Column(batches, "ids")) = video_ids
          /\ full_stats = Flatten(Column(batches, "records"))

\* The same where no request fails with anything but an HttpError.
HttpErrorChunksIsolated ==
    (\A k \in 1..Len(batches) : batches[k].outcome # "NetworkError") =>
        C4_ChunksIsolated

\* C5: no two results of search_videos have the same identifier, and the
\* driver hands get_video_stats no identifier twice.  (Spec)
C5_NoDuplicateIds ==
    /\ Cardinality(Range(VideoIdsOf(video_data))) = Len(video_data)
    /\ Cardinality(Range(video_ids)) = Len(video_ids)

Classified(raw, r) ==
    /\ (raw.duration_iso = None \/ raw.duration_iso = Some(Malformed)) =>
          (r.duration_seconds = None /\ r.video_type = None)
    /\ r.duration_seconds = None => r.video_type = None
    /\ r.duration_seconds # None =>
          IF r.duration_seconds[1] < ShortEdge
          THEN r.video_type = Some("Short")
          ELSE r.video_type = Some("Longer_Video")

\* C6: on every non-empty table clean_and_process_data completes and
\* classifies each record by its own duration.  (SpecTransform)
C6_CleanClassifiesEveryBatch ==
    (pc # "clean" /\ df_raw_combined[1] # <<>>) =>
        /\ df_processed_combined # None
        /\ \A k \in 1..Len(df_raw_combined[1]) :
              Classified(df_raw_combined[1][k], df_processed_combined[1][k])

\* What the code does keep to: the classification of the tables it completes on.
CleanClassifiesWhenCompleted ==
    df_processed_combined # None =>
        \A k \in 1..Len(df_raw_combined[1]) :
            Classified(df_raw_combined[1][k], df_processed_combined[1][k])

EngagementOf(raw, r) ==
    /\ r.engagement_rate.den # 0
    /\ raw.view_count = 0 => r.engagement_rate = Zero
    /\ raw.view_count > 0 =>
          r.engagement_rate.num * raw.view_count
              = (raw.like_count + raw.comment_count) * r.engagement_rate.den

PairOf(r) == <<r.Trend_ID, r.Date>>

\* C8: aggregate_youtube_data returns one row per distinct (Trend_ID, Date)
\* pair of its input, daily_video_count is the number of input records of
\* the pair, and the counts add up to the number of input records.
\* (SpecTransform)
C8_OneRowPerPairCountingAll ==
    df_final_aggregated # None =>
        LET inp == df_processed_combined[1]
            out == df_final_aggregated[1]
        IN  /\ Len(out) = Cardinality({PairOf(inp[k]) : k \in 1..Len(inp)})
            /\ \A n \in 1..Len(out) :
                  out[n].daily_video_count =
                      Cardinality({k \in 1..Len(inp) :
                          PairOf(inp[k]) = <<out[n].Trend_ID, Some(out[n].Date)>>})
            /\ SumSeq(Column(out, "daily_video_count")) = Len(inp)

\* What the code does keep to: the rows are the pairs with a date, and the
\* count is that of the records of the pair that have a video_id.
AggregateCountsIdsOfDatedPairs ==
    df_final_aggregated # None =>
        LET inp == df_processed_combined[1]
            out == df_final_aggregated[1]
        IN  /\ Len(out) = Cardinality({PairOf(inp[k]) : k \in
                              {n \in 1..Len(inp) : inp[n].Date # None}})
            /\ \A n \in 1..Len(out) :
                  out[n].daily_video_count =
                      Cardinality({k \in 1..Len(inp) :
                          /\ PairOf(inp[k]) = <<out[n].Trend_ID, Some(out[n].Date)>>
                          /\ inp[k].video_id # None})

\* C9: a failed search page or detail batch request is handled where it is
\* made: it leaves neither function as an exception and does not reach the
\* handler of the driver.  (Spec)
C9_RequestFailureStaysLocal ==
    FailedResponse => pc \notin {"search_raised", "stats_raised", "caught"}

AllStepsCompleted ==
    /\ trend_idx = Len(TREND_QUERIES) + 1
    /\ all_raw_data # <<>>
    /\ df_raw_combined # None
    /\ df_processed_combined # None
    /\ df_final_aggregated # None

\* C10: the output file is written at most once, and only in a run where
\* authentication, every query's search and stats fetch, the concatenation,
\* clean_and_process_data and aggregate_youtube_data have all completed; a
\* run in which one of them raised, or that collected nothing, wrote
\* nothing.  (Spec)
C10_WriteOnceAfterAllSteps ==
    /\ written <= 1
    /\ written = 1 => (AllStepsCompleted /\ pc \in {"done", "caught"}
                       /\ file = df_processed_combined)
    /\ pc = "exited" => written = 0
    /\ (pc = "caught" /\ ~AllStepsCompleted) => written = 0
    /\ pc = "done" => written = 1

\* C10 witness: a run that wrote the file, with a query whose fetch lost a
\* batch to an HttpError on the way.
C10_Witness ==
    /\ pc = "done"
    /\ written = 1
    /\ file # None
    /\ Len(all_raw_data) = Len(TREND_QUERIES)
    /\ \E k \in 1..Len(all_raw_data) : all_raw_data[k] = <<>>
=============================================================================
